---- MODULE Spec2Model ----
(***************************************************************************)
(* A model of the interpreter of src/final_example.py: the scope store     *)
(* SCOPES, the scope trace (definition path, execution path), the tracing  *)
(* decorator, the infix parser / RPN evaluator, and the handlers reached   *)
(* through do().                                                            *)
(*                                                                         *)
(* A top-level program is ["seq", s1, ..., sk]: do_seq is not traced, and  *)
(* each iteration of its loop (one do(expr, scope_trace)) is one step of   *)
(* the model.  A raised exception ends the run.                            *)
(***************************************************************************)
EXTENDS Integers, Sequences, FiniteSets, TLC

(***************************************************************************)
(* Bounds of the model.                                                    *)
(***************************************************************************)
\* number of operands of the top-level seq that a run evaluates
MaxSteps == 4
\* nesting of do_call inside do_call before the host gives up (RecursionError)
MaxCallDepth == 3
\* integer operands of short infix forms range over -1..MaxInt, and 10
MaxInt == 4
\* integer operands of the longer (three and four operator) infix forms
MaxLongInt == 2

(***************************************************************************)
(* Python / JSON data.  Every datum is a record of one shape, so that any  *)
(* two data can be compared: k is the Python type, n/d the number (an int  *)
(* has d = 1, a float is the fraction n/d in lowest terms), s the string,  *)
(* l the elements of a list.                                                *)
(***************************************************************************)
I(n) == [k |-> "int", n |-> n, d |-> 1, s |-> "", l |-> <<>>]

Fl(n, d) == [k |-> "float", n |-> n, d |-> d, s |-> "", l |-> <<>>]

S(s) == [k |-> "str", n |-> 0, d |-> 1, s |-> s, l |-> <<>>]

L(l) == [k |-> "list", n |-> 0, d |-> 1, s |-> "", l |-> l]

None == [k |-> "none", n |-> 0, d |-> 1, s |-> "", l |-> <<>>]

IsNum(v) == v.k \in {"int", "float"}

Abs(n) == IF n < 0 THEN -n ELSE n

RECURSIVE GCD(_, _)
GCD(a, b) == IF b = 0 THEN a ELSE GCD(b, a % b)

\* the number n/d (d # 0) as Python holds it: an int stays an int, a float
\* is kept as a fraction in lowest terms with a positive denominator
Num(kind, n, d) ==
    IF kind = "int" THEN I(n)
    ELSE LET g == GCD(Abs(n), Abs(d))
             sgn == IF d < 0 THEN -1 ELSE 1
         IN Fl(sgn * (n \div g), sgn * (d \div g))

\* the type of the result of an arithmetic operator on two numbers
Wider(a, b) == IF a.k = "float" \/ b.k = "float" THEN "float" ELSE "int"

\* Python's == on two numbers
NumEq(a, b) == a.n * b.d = b.n * a.d

\* bool(x) of a number
Truthy(a) == a.n # 0

(***************************************************************************)
(* precedence(op): None for anything that is not one of the seven          *)
(* operators; NoPrec stands for None.                                       *)
(***************************************************************************)
NoPrec == 0

\* precedence with "*" and "/" ranked like "+" and "-"
precedence_flat(op) ==
    IF op.k = "str" /\ op.s \in {"AND", "OR", "XOR"} THEN 1
    ELSE IF op.k = "str" /\ op.s \in {"+", "-", "*", "/"} THEN 2
    ELSE NoPrec

precedence(op) ==
    IF op.k = "str" /\ op.s \in {"AND", "OR", "XOR"} THEN 1
    ELSE IF op.k = "str" /\ op.s \in {"+", "-"} THEN 2
    ELSE IF op.k = "str" /\ op.s \in {"*", "/"} THEN 3
    ELSE NoPrec

(***************************************************************************)
(* evaluate_rpn(expr).  The result is [err, v]: err is "" and v the value  *)
(* returned, or err names the exception raised.                            *)
(***************************************************************************)
RpnOk(v) == [err |-> "", v |-> v]

RpnRaise(e) == [err |-> e, v |-> None]

Pushed(v) == [err |-> "", push |-> TRUE, v |-> v]

\* the branch of "/" with the check of the wrong operand
divide_checking_left(operand1, operand2) ==
    IF NumEq(operand1, I(0))
    THEN [err |-> "ZeroDivisionError", push |-> FALSE, v |-> None]
    ELSE Pushed(Num("float", operand1.n * operand2.d, operand1.d * operand2.n))

\* the branch of "/": operand1 / operand2
divide(operand1, operand2) ==
    IF NumEq(operand2, I(0))
    THEN [err |-> "ZeroDivisionError", push |-> FALSE, v |-> None]
    ELSE Pushed(Num("float", operand1.n * operand2.d, operand1.d * operand2.n))

\* operand1 and operand2, as Python evaluates it without bool()
bool_and_uncoerced(operand1, operand2) ==
    Pushed(IF Truthy(operand1) THEN operand2 ELSE operand1)

\* the branch of "AND": int(bool(operand1) and bool(operand2))
bool_and(operand1, operand2) ==
    Pushed(I(IF Truthy(operand1) /\ Truthy(operand2) THEN 1 ELSE 0))

\* the branch of "OR": int(bool(operand1) or bool(operand2))
bool_or(operand1, operand2) ==
    Pushed(I(IF Truthy(operand1) \/ Truthy(operand2) THEN 1 ELSE 0))

\* the branch of "XOR" comparing the truth values of the operands
bool_xor_coerced(operand1, operand2) ==
    Pushed(I(IF Truthy(operand1) # Truthy(operand2) THEN 1 ELSE 0))

\* the branch of "XOR": int(bool(operand1 != operand2))
bool_xor(operand1, operand2) ==
    Pushed(I(IF ~NumEq(operand1, operand2) THEN 1 ELSE 0))

\* the if/elif chain of evaluate_rpn on an operator token: the value pushed
\* for operand1, operand2, or the exception.  A token that is none of the
\* seven operators pushes nothing.
apply_operator(arg, operand1, operand2) ==
    LET kind == Wider(operand1, operand2) IN
        IF arg.k # "str" THEN [err |-> "", push |-> FALSE, v |-> None]
        ELSE IF arg.s = "+" THEN
            Pushed(Num(kind, operand1.n * operand2.d + operand2.n * operand1.d,
                       operand1.d * operand2.d))
        ELSE IF arg.s = "-" THEN
            Pushed(Num(kind, operand1.n * operand2.d - operand2.n * operand1.d,
                       operand1.d * operand2.d))
        ELSE IF arg.s = "*" THEN
            Pushed(Num(kind, operand1.n * operand2.n, operand1.d * operand2.d))
        ELSE IF arg.s = "/" THEN divide(operand1, operand2)
        ELSE IF arg.s = "AND" THEN bool_and(operand1, operand2)
        ELSE IF arg.s = "OR" THEN bool_or(operand1, operand2)
        ELSE IF arg.s = "XOR" THEN bool_xor(operand1, operand2)
        ELSE [err |-> "", push |-> FALSE, v |-> None]

\* the loop of evaluate_rpn over the tokens left, with the evaluation stack
\* (its top is its last element)
RECURSIVE rpn_loop(_, _)
rpn_loop(tokens, evaluation_stack) ==
    IF tokens = <<>> THEN
        IF Len(evaluation_stack) = 1 THEN RpnOk(evaluation_stack[1])
        ELSE RpnRaise("AssertionError")
    ELSE LET arg == Head(tokens) IN
        IF arg.k = "int" THEN rpn_loop(Tail(tokens), Append(evaluation_stack, arg))
        ELSE IF Len(evaluation_stack) < 2 THEN RpnRaise("IndexError")
        ELSE LET m == Len(evaluation_stack)
                 operand2 == evaluation_stack[m]
                 operand1 == evaluation_stack[m - 1]
                 rest == SubSeq(evaluation_stack, 1, m - 2)
                 r == apply_operator(arg, operand1, operand2)
             IN IF r.err # "" THEN RpnRaise(r.err)
                ELSE rpn_loop(Tail(tokens), IF r.push THEN Append(rest, r.v) ELSE rest)

evaluate_rpn(expr) == rpn_loop(expr, <<>>)

(***************************************************************************)
(* The scope store.  SCOPES maps a name to (value, child scope); the model *)
(* holds the tree flat: the address of a binding is the sequence of names  *)
(* from the root down to it, and the store is the function from the        *)
(* addresses bound to their values.  The level addressed by a sequence of  *)
(* names p exists iff p is empty (the root) or p is a bound address.       *)
(***************************************************************************)
EmptyScopes == [a \in {} |-> None]

IsPrefix(p, q) == Len(p) <= Len(q) /\ SubSeq(q, 1, Len(p)) = p

\* the navigation loop leaving at its first iteration
walk_not_descending(scopes, at, rest) == at

\* the level reached from level `at` by following `rest`, stopping at the
\* first segment that is not bound (the KeyError of dest[level])
RECURSIVE walk(_, _, _)
walk(scopes, at, rest) ==
    IF rest = <<>> THEN at
    ELSE LET nxt == Append(at, Head(rest)) IN
         IF nxt \in DOMAIN scopes THEN walk(scopes, nxt, Tail(rest)) ELSE at

\* dest[name] = (value, {}): the binding is written and its child scope is
\* a new empty one
bind_at(scopes, dest, name, value) ==
    LET addr == Append(dest, name)
        kept == {a \in DOMAIN scopes : ~IsPrefix(addr, a)}
    IN  [a \in kept \cup {addr} |-> IF a = addr THEN value ELSE scopes[a]]

\* set_in_scope_dict with the name appended to the path of a function
\* definition (scope_trace_path.append(name))
set_in_scope_dict_appending(scopes, name, value, scope_trace_path, is_func) ==
    IF name.k # "str" THEN
        [SCOPES |-> scopes, path |-> scope_trace_path, err |-> "AssertionError"]
    ELSE [SCOPES |-> bind_at(scopes, walk(scopes, <<>>, scope_trace_path), name.s, value),
          path |-> IF is_func THEN Append(scope_trace_path, name.s) ELSE scope_trace_path,
          err |-> ""]

\* set_in_scope_dict(name, value, scope_trace_path, is_func): the store after
\* the call, the list scope_trace_path as the call leaves it (the caller's
\* list, passed by reference) and the exception it raises, if any
set_in_scope_dict(scopes, name, value, scope_trace_path, is_func) ==
    IF name.k # "str" THEN
        [SCOPES |-> scopes, path |-> scope_trace_path, err |-> "AssertionError"]
    ELSE [SCOPES |-> bind_at(scopes, walk(scopes, <<>>, scope_trace_path), name.s, value),
          \* scope_trace_path.append[name] subscripts a method: it raises
          \* before anything is appended
          path |-> scope_trace_path,
          err |-> IF is_func THEN "TypeError" ELSE ""]

\* the loop of get_from_scope_dict: value is the match remembered so far
\* the loop keeping the first match instead of the last
RECURSIVE get_loop_first_match(_, _, _, _, _)
get_loop_first_match(scopes, name, at, rest, value) ==
    IF rest = <<>> THEN value
    ELSE LET nxt == Append(at, Head(rest)) IN
         IF nxt \notin DOMAIN scopes THEN value
         ELSE get_loop_first_match(scopes, name, nxt, Tail(rest),
                       IF value = None /\ Append(nxt, name) \in DOMAIN scopes
                       THEN scopes[Append(nxt, name)] ELSE value)

RECURSIVE get_loop(_, _, _, _, _)
get_loop(scopes, name, at, rest, value) ==
    IF rest = <<>> THEN value
    ELSE LET nxt == Append(at, Head(rest)) IN
         IF nxt \notin DOMAIN scopes THEN value
         ELSE get_loop(scopes, name, nxt, Tail(rest),
                       IF Append(nxt, name) \in DOMAIN scopes
                       THEN scopes[Append(nxt, name)] ELSE value)

get_from_scope_dict(scopes, name, execution_scope_trace) ==
    get_loop(scopes, name, <<>>, execution_scope_trace,
             IF <<name>> \in DOMAIN scopes THEN scopes[<<name>>] ELSE None)

\* check_for_func(arg): [err, v]
check_for_func(arg) ==
    IF arg.k # "list" THEN [err |-> "", v |-> FALSE]
    ELSE IF Len(arg.l) < 2 THEN [err |-> "IndexError", v |-> FALSE]
    ELSE [err |-> "", v |-> arg.l[2] = S("function")]

(***************************************************************************)
(* The evaluator.  It threads the interpreter state                        *)
(*   st = [SCOPES, dpath, epath, sink, ids, trace, err]                    *)
(* (dpath, epath are scope_trace[0], scope_trace[1]; sink the rows of the  *)
(* trace file; ids the number of uuid4() draws made; trace whether         *)
(* sys.argv[3] exists; err the exception raised, "" for none) and returns  *)
(* [st, v].                                                                *)
(***************************************************************************)
Ret(st, v) == [st |-> st, v |-> v]

Raise(st, e) == [st |-> [st EXCEPT !.err = e], v |-> None]

\* the keys of OPS: the names do_* with "do_" removed
OPS == {"add", "power", "seq", "set", "get", "function", "call"}

\* the handlers carrying @trace_function()
Traced == {"add", "power", "set", "get", "function", "call"}

\* log_event: a row appended to the file sys.argv[3] (the timestamp of the row
\* is left out); without a fourth command-line argument sys.argv[3] raises
log_event(st, id, function_name, event) ==
    IF ~st.trace THEN [st EXCEPT !.err = "IndexError"]
    ELSE [st EXCEPT !.sink = Append(@, [id |-> id, name |-> function_name, event |-> event])]

\* do_function
do_function(args, st) ==
    IF Len(args) # 2 THEN Raise(st, "AssertionError")
    ELSE Ret(st, L(<<S("function"), args[1], args[2]>>))

\* do_get writing the value it found at the level of the execution path
do_get_caching(args, st) ==
    IF Len(args) # 1 \/ args[1].k # "str" THEN Raise(st, "AssertionError")
    ELSE LET value == get_from_scope_dict(st.SCOPES, args[1].s, st.epath) IN
         Ret([st EXCEPT !.SCOPES = bind_at(st.SCOPES, walk(st.SCOPES, <<>>, st.epath),
                                          args[1].s, value)],
             value)

\* do_get
do_get(args, st) ==
    IF Len(args) # 1 \/ args[1].k # "str" THEN Raise(st, "AssertionError")
    ELSE Ret(st, get_from_scope_dict(st.SCOPES, args[1].s, st.epath))

\* left + right of do_add
py_add(st, left, right) ==
    IF IsNum(left) /\ IsNum(right) THEN
        Ret(st, Num(Wider(left, right), left.n * right.d + right.n * left.d, left.d * right.d))
    ELSE IF left.k = "list" /\ right.k = "list" THEN Ret(st, L(left.l \o right.l))
    ELSE Raise(st, "TypeError")

Last(s) == s[Len(s)]

Reverse(s) == [i \in 1..Len(s) |-> s[Len(s) + 1 - i]]

RECURSIVE IntPow(_, _)
IntPow(b, e) == IF e = 0 THEN 1 ELSE b * IntPow(b, e - 1)

\* left ** right of do_power, for an exponent of integral value; any other
\* exponent has no exact value here and is reported as "OutOfModel"
py_pow(st, left, right) ==
    IF ~(IsNum(left) /\ IsNum(right)) THEN Raise(st, "TypeError")
    ELSE IF right.d # 1 THEN Raise(st, "OutOfModel")
    ELSE IF right.n >= 0 THEN
        Ret(st, Num(Wider(left, right), IntPow(left.n, right.n), IntPow(left.d, right.n)))
    ELSE IF left.n = 0 THEN Raise(st, "ZeroDivisionError")
    ELSE Ret(st, Num("float", IntPow(left.d, -right.n), IntPow(left.n, -right.n)))

RECURSIVE do(_, _, _)
RECURSIVE parse_loop(_, _, _, _, _)
RECURSIVE parse_loop_losing_popped(_, _, _, _, _)
RECURSIVE seq_loop(_, _, _, _)
RECURSIVE eval_arguments(_, _, _, _)
RECURSIVE eval_arguments_right_to_left(_, _, _, _)

\* the loop dropping the operator it pops instead of queueing it
parse_loop_losing_popped(tokens, st, depth, output_queue, operator_stack) ==
    IF tokens = <<>> THEN [st |-> st, q |-> output_queue \o Reverse(operator_stack)]
    ELSE LET arg == Head(tokens) IN
        IF arg.k = "int" THEN
            parse_loop_losing_popped(Tail(tokens), st, depth, Append(output_queue, arg),
                                     operator_stack)
        ELSE IF arg.k = "list" THEN
            LET r == do(arg, st, depth) IN
            IF r.st.err # "" THEN [st |-> r.st, q |-> <<>>]
            ELSE parse_loop_losing_popped(Tail(tokens), r.st, depth, Append(output_queue, r.v),
                                          operator_stack)
        ELSE IF operator_stack = <<>> THEN
            parse_loop_losing_popped(Tail(tokens), st, depth, output_queue, <<arg>>)
        ELSE IF precedence(arg) = NoPrec \/ precedence(Last(operator_stack)) = NoPrec THEN
            [st |-> [st EXCEPT !.err = "TypeError"], q |-> <<>>]
        ELSE IF precedence(arg) <= precedence(Last(operator_stack)) THEN
            parse_loop_losing_popped(Tail(tokens), st, depth, output_queue,
                       Append(SubSeq(operator_stack, 1, Len(operator_stack) - 1), arg))
        ELSE parse_loop_losing_popped(Tail(tokens), st, depth, output_queue,
                                      Append(operator_stack, arg))

\* the for loop of parse_infix, then the draining of the operator stack:
\* [st, q] with q the output queue
parse_loop(tokens, st, depth, output_queue, operator_stack) ==
    IF tokens = <<>> THEN [st |-> st, q |-> output_queue \o Reverse(operator_stack)]
    ELSE LET arg == Head(tokens) IN
        IF arg.k = "int" THEN
            parse_loop(Tail(tokens), st, depth, Append(output_queue, arg), operator_stack)
        ELSE IF arg.k = "list" THEN
            LET r == do(arg, st, depth) IN
            IF r.st.err # "" THEN [st |-> r.st, q |-> <<>>]
            ELSE parse_loop(Tail(tokens), r.st, depth, Append(output_queue, r.v), operator_stack)
        ELSE IF operator_stack = <<>> THEN
            parse_loop(Tail(tokens), st, depth, output_queue, <<arg>>)
        ELSE IF precedence(arg) = NoPrec \/ precedence(Last(operator_stack)) = NoPrec THEN
            \* None <= int, int <= None, None <= None
            [st |-> [st EXCEPT !.err = "TypeError"], q |-> <<>>]
        ELSE IF precedence(arg) <= precedence(Last(operator_stack)) THEN
            parse_loop(Tail(tokens), st, depth,
                       Append(output_queue, Last(operator_stack)),
                       Append(SubSeq(operator_stack, 1, Len(operator_stack) - 1), arg))
        ELSE parse_loop(Tail(tokens), st, depth, output_queue, Append(operator_stack, arg))

parse_infix(expr, st, depth) ==
    IF Len(expr) < 3 THEN [st |-> [st EXCEPT !.err = "AssertionError"], q |-> <<>>]
    ELSE parse_loop(expr, st, depth, <<>>, <<>>)

\* do_seq: the loop over args, result the value of the last one
seq_loop(args, st, depth, result) ==
    IF args = <<>> THEN Ret(st, result)
    ELSE LET r == do(Head(args), st, depth) IN
         IF r.st.err # "" THEN r ELSE seq_loop(Tail(args), r.st, depth, r.v)

do_seq(args, st, depth) ==
    IF Len(args) = 0 THEN Raise(st, "AssertionError")
    ELSE seq_loop(args, st, depth, None)

\* the state after set_in_scope_dict was given scope_trace[0] (is_func) or
\* scope_trace[1] and returned w
set_written(st, is_func, w) ==
    IF is_func THEN [st EXCEPT !.SCOPES = w.SCOPES, !.dpath = w.path]
    ELSE [st EXCEPT !.SCOPES = w.SCOPES, !.epath = w.path]

\* do_set once set_in_scope_dict has returned (w is the store, the path and
\* the exception it raised)
set_done(value, is_func, w) ==
    IF w.err # "" THEN Raise(set_written(value.st, is_func, w), w.err)
    ELSE Ret(set_written(value.st, is_func, w), value.v)

do_add(args, st, depth) ==
    IF Len(args) # 2 THEN Raise(st, "AssertionError")
    ELSE LET left == do(args[1], st, depth) IN
         IF left.st.err # "" THEN left
         ELSE LET right == do(args[2], left.st, depth) IN
              IF right.st.err # "" THEN right
              ELSE py_add(right.st, left.v, right.v)

do_power(args, st, depth) ==
    IF Len(args) # 2 THEN Raise(st, "AssertionError")
    ELSE LET left == do(args[1], st, depth) IN
         IF left.st.err # "" THEN left
         ELSE LET right == do(args[2], left.st, depth) IN
              IF right.st.err # "" THEN right
              ELSE py_pow(right.st, left.v, right.v)

\* do_set once the right-hand side is evaluated (value is [st, v])
set_value(var_name, is_func, value) ==
    IF value.st.err # "" THEN value
    ELSE set_done(value, is_func, set_in_scope_dict(value.st.SCOPES, var_name, value.v,
                                           IF is_func THEN value.st.dpath ELSE value.st.epath,
                                           is_func))

\* do_set once check_for_func has returned (is_func is [err, v])
set_checked(args, is_func, st, depth) ==
    IF is_func.err # "" THEN Raise(st, is_func.err)
    ELSE set_value(args[1], is_func.v, do(args[2], st, depth))

do_set(args, st, depth) ==
    IF Len(args) # 2 \/ args[1].k # "str" THEN Raise(st, "AssertionError")
    ELSE set_checked(args, check_for_func(args[2]), st, depth)

\* the arguments evaluated from the last to the first
eval_arguments_right_to_left(exprs, st, depth, vals) ==
    IF exprs = <<>> THEN [st |-> st, vals |-> vals]
    ELSE LET r == do(Last(exprs), st, depth) IN
         IF r.st.err # "" THEN [st |-> r.st, vals |-> vals]
         ELSE eval_arguments_right_to_left(SubSeq(exprs, 1, Len(exprs) - 1), r.st, depth,
                                           <<r.v>> \o vals)

\* arguments = [do(a, scope_trace) for a in args[1:]]: [st, vals]
eval_arguments(exprs, st, depth, vals) ==
    IF exprs = <<>> THEN [st |-> st, vals |-> vals]
    ELSE LET r == do(Head(exprs), st, depth) IN
         IF r.st.err # "" THEN [st |-> r.st, vals |-> vals]
         ELSE eval_arguments(Tail(exprs), r.st, depth, Append(vals, r.v))

\* for param, arg in zip(params, arguments): set_in_scope_dict(param, arg, path)
RECURSIVE bind_parameters(_, _, _, _)
bind_parameters(scopes, params, arguments, path) ==
    IF params = <<>> \/ arguments = <<>> THEN [SCOPES |-> scopes, path |-> path, err |-> ""]
    ELSE LET w == set_in_scope_dict(scopes, Head(params), Head(arguments), path, FALSE) IN
         IF w.err # "" THEN w
         ELSE bind_parameters(w.SCOPES, Tail(params), Tail(arguments), path)

\* the callee's name appended twice
push_name_twice(st, func_name) == [st EXCEPT !.epath = @ \o <<func_name, func_name>>]

\* scope_trace[1].append(func_name)
push_name(st, func_name) == [st EXCEPT !.epath = Append(@, func_name)]

\* the callee's name popped after the body
after_body_popping(st, func_name) == [st EXCEPT !.epath = SubSeq(@, 1, Len(@) - 1)]

\* the statement of do_call that follows the evaluation of the body
after_body(st, func_name) == push_name(st, func_name)

\* the end of do_call: result is what do(body, scope_trace) gave
returned(func_name, result) ==
    IF result.st.err # "" THEN result
    ELSE Ret(after_body(result.st, func_name), result.v)

\* do_call from the pushing of the callee's name on: the body is evaluated
\* and the name appended once more
call_body(func_name, body, st, depth) ==
    IF depth >= MaxCallDepth THEN Raise(st, "RecursionError")
    ELSE returned(func_name, do(body, st, depth + 1))

\* do_call once the parameters are bound (w is the store and the exception
\* of the binding loop)
call_bound(func_name, body, st, w, depth) ==
    IF w.err # "" THEN Raise([st EXCEPT !.SCOPES = w.SCOPES], w.err)
    ELSE call_body(func_name, body, push_name([st EXCEPT !.SCOPES = w.SCOPES], func_name), depth)

\* do_call once func is found: the asserts on func, params and body, then
\* the binding of the parameters at the execution path
call_function(func_name, func, arguments, st, depth) ==
    IF func.k = "list" /\ func.l = <<>> THEN Raise(st, "IndexError")
    ELSE IF ~(func.k = "list" /\ func.l[1] = S("function")) THEN
        Raise(st, "AssertionError: is not a function")
    ELSE IF Len(func.l) < 3 THEN Raise(st, "IndexError")
    \* len(params) of a string is not modelled; of a number it is a TypeError
    ELSE IF func.l[2].k = "str" THEN Raise(st, "OutOfModel")
    ELSE IF func.l[2].k # "list" THEN Raise(st, "TypeError")
    ELSE IF Len(arguments) # Len(func.l[2].l) THEN
        Raise(st, "AssertionError: different number of parameters")
    ELSE call_bound(func_name, func.l[3], st,
                    bind_parameters(st.SCOPES, func.l[2].l, arguments, st.epath), depth)

\* do_call once the arguments are evaluated (a is [st, vals])
call_evaluated(func_name, a, depth) ==
    IF a.st.err # "" THEN Ret(a.st, None)
    ELSE call_function(func_name, get_from_scope_dict(a.st.SCOPES, func_name, a.st.epath),
                       a.vals, a.st, depth)

\* do_call looking the callee up before it evaluates the arguments
do_call_resolving_first(args, st, depth) ==
    IF Len(args) < 1 \/ args[1].k # "str" THEN Raise(st, "AssertionError")
    ELSE LET func == get_from_scope_dict(st.SCOPES, args[1].s, st.epath) IN
         IF ~(func.k = "list" /\ func.l # <<>> /\ func.l[1] = S("function")) THEN
             Raise(st, "AssertionError: is not a function")
         ELSE call_evaluated(args[1].s, eval_arguments(Tail(args), st, depth, <<>>), depth)

do_call(args, st, depth) ==
    IF Len(args) < 1 \/ args[1].k # "str" THEN Raise(st, "AssertionError")
    ELSE call_evaluated(args[1].s, eval_arguments(Tail(args), st, depth, <<>>), depth)

\* OPS[expr[0]]
operation(op, args, st, depth) ==
    IF op = "add" THEN do_add(args, st, depth)
    ELSE IF op = "power" THEN do_power(args, st, depth)
    ELSE IF op = "seq" THEN do_seq(args, st, depth)
    ELSE IF op = "set" THEN do_set(args, st, depth)
    ELSE IF op = "get" THEN do_get(args, st)
    ELSE IF op = "function" THEN do_function(args, st)
    ELSE do_call(args, st, depth)

\* the "stop" row written under a call id drawn anew
wrapper_returned_new_id(call_id, result) ==
    IF result.st.err # "" THEN result
    ELSE Ret(log_event([result.st EXCEPT !.ids = @ + 1], result.st.ids + 1,
                       Last(result.st.epath), "stop"),
             IF result.st.trace THEN result.v ELSE None)

\* the wrapper after func returned: the "stop" row
wrapper_returned(call_id, result) ==
    IF result.st.err # "" THEN result
    ELSE Ret(log_event(result.st, call_id, Last(result.st.epath), "stop"),
             \* log_event raising loses the result
             IF result.st.trace THEN result.v ELSE None)

\* the wrapper after the "start" row (s1 is the state log_event left)
wrapper_started(op, args, call_id, s1, depth) ==
    IF s1.err # "" THEN Ret(s1, None)
    ELSE wrapper_returned(call_id, operation(op, args, s1, depth))

\* the infix branch of do once evaluate_rpn has returned
infix_result(st, result) ==
    IF result.err # "" THEN Raise(st, result.err) ELSE Ret(st, result.v)

\* the wrapper of trace_function: function_name_holder is the execution path
\* itself, read again (after the handler ran) for the "stop" row; the call id
\* is the number of the uuid4() draw
wrapper(op, args, st, depth) ==
    IF st.epath # <<>> THEN
        wrapper_started(op, args, st.ids + 1,
                        log_event([st EXCEPT !.ids = st.ids + 1], st.ids + 1,
                                  Last(st.epath), "start"),
                        depth)
    ELSE operation(op, args, st, depth)

\* the infix branch of do once parse_infix has returned
do_infix(tokens) ==
    IF tokens.st.err # "" THEN Ret(tokens.st, None)
    ELSE infix_result(tokens.st, evaluate_rpn(tokens.q))

UnknownOperation == "ValueError: Unknown operation"

\* the raise, made after the operands of the form were evaluated
unknown_operation_after_operands(expr, st, depth) ==
    LET r == seq_loop(Tail(expr.l), st, depth, None) IN
    IF r.st.err # "" THEN r ELSE Raise(r.st, UnknownOperation)

\* expr[0] not in OPS: raise ValueError(f"Unknown operation: {expr[0]}")
unknown_operation(expr, st, depth) == Raise(st, UnknownOperation)

do(expr, st, depth) ==
    IF expr.k = "int" THEN Ret(st, expr)
    ELSE IF expr.k # "list" THEN Raise(st, "ValueError: Unknown expression")
    ELSE IF expr.l = <<>> THEN Raise(st, "IndexError")
    ELSE IF expr.l[1].k = "str" THEN
        IF expr.l[1].s \notin OPS THEN unknown_operation(expr, st, depth)
        ELSE IF expr.l[1].s \in Traced THEN wrapper(expr.l[1].s, Tail(expr.l), st, depth)
        ELSE operation(expr.l[1].s, Tail(expr.l), st, depth)
    ELSE do_infix(parse_infix(expr.l, st, depth))

(***************************************************************************)
(* The run.                                                                *)
(***************************************************************************)
VARIABLES
    SCOPES,       \* the scope store
    scope_trace,  \* <<definition path, execution path>>
    sink,         \* the rows of the trace file
    ids,          \* number of call ids drawn
    trace,        \* TRUE iff the run was started with --trace <file>
    error,        \* the exception that ended the run, "" while it runs
    expr,         \* the operand of the top-level seq evaluated last
    result,       \* its value
    steps         \* operands of the top-level seq still to evaluate

vars == <<SCOPES, scope_trace, sink, ids, trace, error, expr, result, steps>>

\* main(): scope_trace = ([], []), SCOPES = {}, with or without --trace
Init ==
    /\ SCOPES = EmptyScopes
    /\ scope_trace = <<(<<>>), (<<>>)>>
    /\ sink = <<>>
    /\ ids = 0
    /\ trace \in BOOLEAN
    /\ error = ""
    /\ expr = None
    /\ result = None
    /\ steps = MaxSteps

State == [SCOPES |-> SCOPES, dpath |-> scope_trace[1], epath |-> scope_trace[2],
          sink |-> sink, ids |-> ids, trace |-> trace, err |-> ""]

\* the top-level do_seq has an operand left and no exception was raised
Running == error = "" /\ steps > 0

\* the state after do(e, scope_trace) gave r = [st, v]
Evaluated(e, r) ==
    /\ SCOPES' = r.st.SCOPES
    /\ scope_trace' = <<r.st.dpath, r.st.epath>>
    /\ sink' = r.st.sink
    /\ ids' = r.st.ids
    /\ error' = r.st.err
    /\ result' = r.v
    /\ expr' = e
    /\ steps' = steps - 1
    /\ UNCHANGED trace

\* one iteration of the loop of the top-level do_seq: result = do(e, scope_trace)
Step(e) ==
    /\ Running
    /\ Evaluated(e, do(e, State, 0))


(***************************************************************************)
(* The forms the runs are built from.                                      *)
(***************************************************************************)
Get(x) == L(<<S("get"), S(x)>>)

Set(x, rhs) == L(<<S("set"), S(x), rhs>>)

Call(f, args) == L(<<S("call"), S(f)>> \o args)

SeqOf(es) == L(<<S("seq")>> \o es)

\* a form of the keyword "function" of OPS
Function(params, body) == L(<<S("function"), L(params), body>>)

\* the form of the keyword "func", as the docstring of do_function writes it
Func(params, body) == L(<<S("func"), L(params), body>>)

Infix(tokens) == L(tokens)

VarNames == {"x", "n"}

Ints == {I(5), I(7)}

\* ["function", ["n"], ["get", "n"]]
FnIdentity == Function(<<S("n")>>, Get("n"))

\* ["function", [], ["seq", ["set", "x", 2], ["get", "x"]]]
FnShadow == Function(<<>>, SeqOf(<<Set("x", I(2)), Get("x")>>))

\* ["function", [], 3]
FnThree == Function(<<>>, I(3))

\* ["function", ["n"], ["call", "f", ["get", "n"]]]
FnOuter == Function(<<S("n")>>, Call("f", <<Get("n")>>))

Functions == {FnIdentity, FnShadow, FnThree}

\* ["function", ["n", "m"], ["get", "m"]]
FnPair == Function(<<S("n"), S("m")>>, Get("m"))

\* ["set", x, v]
SeqSetInt ==
    /\ Running
    /\ \E x \in VarNames \cup {"function"} : \E v \in Ints : Step(Set(x, v))

\* ["set", f, ["function", params, body]]
SeqSetFunction ==
    /\ Running
    /\ \/ \E fn \in Functions : Step(Set("f", fn))
       \/ Step(Set("g", FnOuter))
       \/ Step(Set("h", FnPair))

\* ["set", "f", ["func", ["n"], ["get", "n"]]]
SeqSetFunc ==
    /\ Running
    /\ Step(Set("f", Func(<<S("n")>>, Get("n"))))

\* ["set", x, ["get", y]]
SeqSetFromGet ==
    /\ Running
    /\ \/ \E y \in {"n", "function"} : Step(Set("x", Get(y)))
       \/ Step(Set("f", Get("function")))

\* ["get", x]
SeqGet ==
    /\ Running
    /\ \E x \in VarNames \cup {"f"} : Step(Get(x))

\* ["call", f, a1, ...]
SeqCall ==
    /\ Running
    /\ \/ \E f \in {"f", "x"} : Step(Call(f, <<>>))
       \/ \E f \in {"f", "g"} : \E v \in Ints : Step(Call(f, <<v>>))
       \/ Step(Call("f", <<I(5), I(7)>>))

\* an infix form with a nested form
SeqInfix ==
    /\ Running
    /\ Step(Infix(<<I(1), S("+"), Get("x")>>))

\* ["seq", ["set", "f", ["func", ["n"], ["get", "n"]]], ["call", "f", v]]
DefineAndCall(v) == SeqOf(<<Set("f", Func(<<S("n")>>, Get("n"))), Call("f", <<v>>)>>)

\* a nested seq as an operand of the top-level one
SeqSeq ==
    /\ Running
    /\ \E v \in Ints : Step(DefineAndCall(v))

\* ["call", f, a1, ...] with arguments that read or write the caller's scope
SeqCallArgs ==
    /\ Running
    /\ \/ Step(Call("h", <<I(5), Get("n")>>))
       \/ Step(Call("h", <<Set("x", I(7)), Get("x")>>))
       \/ \E f \in {"k", "x"} : Step(Call(f, <<Set("n", I(7))>>))
       \/ Step(Call("f", <<Call("f", <<I(5)>>)>>))

\* a form headed by a name that no handler do_* carries
SeqUnknown ==
    /\ Running
    /\ \/ Step(L(<<S("frobnicate"), I(1)>>))
       \/ Step(L(<<S("frobnicate"), Set("x", I(5))>>))

\* the keywords the dispatch table is said to cover
Keywords ==
    {"seq", "set", "get", "func", "call", "print", "add", "abs",
     "+", "-", "*", "/", "AND", "OR", "XOR"}

\* a form of the keyword kw with the number of operands kw takes
KeywordForm(kw) ==
    IF kw = "seq" THEN SeqOf(<<I(5)>>)
    ELSE IF kw = "set" THEN Set("x", I(5))
    ELSE IF kw = "get" THEN Get("x")
    ELSE IF kw = "func" THEN Func(<<S("n")>>, Get("n"))
    ELSE IF kw = "call" THEN Call("f", <<>>)
    ELSE IF kw \in {"print", "abs"} THEN L(<<S(kw), I(5)>>)
    ELSE L(<<S(kw), I(1), I(2)>>)

\* [kw, operand, ...] for the keywords not met in the other steps
SeqKeyword ==
    /\ Running
    /\ \E kw \in Keywords \ {"set", "get", "call"} : Step(KeywordForm(kw))

Next ==
    \/ SeqSetInt
    \/ SeqSetFunction
    \/ SeqSetFunc
    \/ SeqSetFromGet
    \/ SeqGet
    \/ SeqCall
    \/ SeqInfix
    \/ SeqSeq
    \/ SeqCallArgs
    \/ SeqUnknown
    \/ SeqKeyword

Spec == Init /\ [][Next]_vars

(***************************************************************************)
(* Runs whose program is one infix form: the pure functions parse_infix    *)
(* and evaluate_rpn applied to bounded inputs.                             *)
(***************************************************************************)
Operators == {"AND", "OR", "XOR", "+", "-", "*", "/"}

Operands == (-1 .. MaxInt) \cup {10}

LongOperators == {"AND", "+", "-", "*"}

LongOperands == 1 .. MaxLongInt

InitInfix ==
    /\ SCOPES = EmptyScopes
    /\ scope_trace = <<(<<>>), (<<>>)>>
    /\ sink = <<>>
    /\ ids = 0
    /\ trace \in BOOLEAN
    /\ error = ""
    /\ expr = None
    /\ result = None
    /\ steps = 1

\* [a, op, b]
InfixOne ==
    /\ Running
    /\ \E a, b \in Operands : \E op \in Operators :
        Step(Infix(<<I(a), S(op), I(b)>>))

\* [a, op1, b, op2, c]
InfixTwo ==
    /\ Running
    /\ \E a, b, c \in Operands : \E op1, op2 \in Operators :
        Step(Infix(<<I(a), S(op1), I(b), S(op2), I(c)>>))

\* [a, "/", [b, "-", c]]
InfixNested ==
    /\ Running
    /\ \E a, b, c \in Operands :
        Step(Infix(<<I(a), S("/"), Infix(<<I(b), S("-"), I(c)>>)>>))

\* [a, op1, b, op2, c, op3, d]
InfixThree ==
    /\ Running
    /\ \E a, b, c, d \in LongOperands : \E op1, op2, op3 \in LongOperators :
        Step(Infix(<<I(a), S(op1), I(b), S(op2), I(c), S(op3), I(d)>>))

\* [a, op1, b, op2, c, op3, d, op4, e]
InfixFour ==
    /\ Running
    /\ \E a, b, c, d, e \in LongOperands : \E op1, op2, op3, op4 \in LongOperators :
        Step(Infix(<<I(a), S(op1), I(b), S(op2), I(c), S(op3), I(d), S(op4), I(e)>>))

NextInfix ==
    \/ InfixOne
    \/ InfixTwo
    \/ InfixNested
    \/ InfixThree
    \/ InfixFour

SpecInfix == InitInfix /\ [][NextInfix]_vars

(***************************************************************************)
(* Properties of the infix forms.                                          *)
(***************************************************************************)
IsInt(tok) == tok.k = "int"

IsOp(tok, ops) == tok.k = "str" /\ tok.s \in ops

\* e is an infix form of integer operands alternating with nops operators of ops
IsInfixOf(e, nops, ops) ==
    /\ e.k = "list"
    /\ Len(e.l) = 2 * nops + 1
    /\ \A i \in 1 .. Len(e.l) : IF i % 2 = 1 THEN IsInt(e.l[i]) ELSE IsOp(e.l[i], ops)

\* the value of a op b
Bin(op, a, b) ==
    IF op = "+" THEN a + b
    ELSE IF op = "-" THEN a - b
    ELSE IF op = "*" THEN a * b
    ELSE IF op = "AND" THEN (IF a # 0 /\ b # 0 THEN 1 ELSE 0)
    ELSE IF op = "OR" THEN (IF a # 0 \/ b # 0 THEN 1 ELSE 0)
    ELSE (IF (a # 0) # (b # 0) THEN 1 ELSE 0)

Level(op) == IF op \in {"*", "/"} THEN 3 ELSE IF op \in {"+", "-"} THEN 2 ELSE 1

\* the value of a op1 b op2 c by precedence and left-associativity
TwoOpValue(a, op1, b, op2, c) ==
    IF Level(op2) > Level(op1) THEN Bin(op1, a, Bin(op2, b, c))
    ELSE Bin(op2, Bin(op1, a, b), c)

\* the value of a form of any length by precedence and left-associativity:
\* the leftmost operator of the highest level present is applied first
RECURSIVE RefValue(_)
RefValue(toks) ==
    IF Len(toks) = 1 THEN toks[1].n
    ELSE LET ops == {i \in 1 .. Len(toks) : i % 2 = 0}
             top == CHOOSE i \in ops : \A j \in ops :
                        \/ Level(toks[i].s) > Level(toks[j].s)
                        \/ Level(toks[i].s) = Level(toks[j].s) /\ i <= j
             v == Bin(toks[top].s, toks[top - 1].n, toks[top + 1].n)
         IN RefValue(SubSeq(toks, 1, top - 2) \o <<I(v)>> \o SubSeq(toks, top + 2, Len(toks)))

ArithOps == {"+", "-", "*"}

\* C7: for integers a, b, c and op1, op2 in {+, -, *}, [a, op1, b] evaluates to
\* a op1 b and [a, op1, b, op2, c] to the value given by precedence and
\* left-associativity; [2,"+",3,"*",4] is 14 and [10,"-",3,"-",2] is 5
C7_InfixArithmetic ==
    /\ IsInfixOf(expr, 1, ArithOps) =>
           error = "" /\ result = I(Bin(expr.l[2].s, expr.l[1].n, expr.l[3].n))
    /\ IsInfixOf(expr, 2, ArithOps) =>
           /\ error = ""
           /\ result = I(TwoOpValue(expr.l[1].n, expr.l[2].s, expr.l[3].n,
                                    expr.l[4].s, expr.l[5].n))
    /\ expr = Infix(<<I(2), S("+"), I(3), S("*"), I(4)>>) => result = I(14)
    /\ expr = Infix(<<I(10), S("-"), I(3), S("-"), I(2)>>) => result = I(5)

C7_Witness ==
    /\ expr = Infix(<<I(2), S("+"), I(3), S("*"), I(4)>>)
    /\ error = ""
    /\ result = I(14)

\* C8: for every well-formed infix form with any number of operators, the
\* evaluated result equals the precedence-respecting, left-associative value
C8_ShuntingYardAnyLength ==
    \A nops \in 1 .. 4 :
        IsInfixOf(expr, nops, LongOperators) =>
            error = "" /\ result = I(RefValue(expr.l))

\* the value of an operand token: an integer, or a nested [b, "-", c]
OperandIsZero(tok) ==
    \/ IsInt(tok) /\ tok.n = 0
    \/ IsInfixOf(tok, 1, {"-"}) /\ tok.l[1].n = tok.l[3].n

\* the infix form e applies "/" to a right operand equal to 0
DividesByZero(e) ==
    /\ e.k = "list"
    /\ \E i \in 1 .. Len(e.l) - 1 : e.l[i] = S("/") /\ OperandIsZero(e.l[i + 1])

\* C9: every evaluation of an infix form in which "/" is applied to a right
\* operand equal to 0 fails with the division-by-zero error and yields no value
C9_DivisionByZero ==
    DividesByZero(expr) => error = "ZeroDivisionError" /\ result = None

C9_Witness ==
    /\ expr = Infix(<<I(4), S("/"), Infix(<<I(3), S("-"), I(3)>>)>>)
    /\ error = "ZeroDivisionError"

\* C10: [a, "AND", b] is 1 if both a and b are nonzero and 0 otherwise,
\* [a, "OR", b] is 1 if at least one is nonzero and 0 otherwise; over {0, 1}
\* AND, OR and XOR reproduce the truth tables
C10_BooleanCoercion ==
    /\ IsInfixOf(expr, 1, {"AND"}) =>
           /\ error = ""
           /\ result = I(IF expr.l[1].n # 0 /\ expr.l[3].n # 0 THEN 1 ELSE 0)
    /\ IsInfixOf(expr, 1, {"OR"}) =>
           /\ error = ""
           /\ result = I(IF expr.l[1].n # 0 \/ expr.l[3].n # 0 THEN 1 ELSE 0)
    /\ (IsInfixOf(expr, 1, {"XOR"}) /\ expr.l[1].n \in {0, 1} /\ expr.l[3].n \in {0, 1}) =>
           /\ error = ""
           /\ result = I(IF expr.l[1].n + expr.l[3].n = 1 THEN 1 ELSE 0)

C10_Witness ==
    /\ expr = Infix(<<I(3), S("AND"), I(2)>>)
    /\ error = ""
    /\ result = I(1)

\* C11 as stated: [a, "XOR", b] is 1 iff exactly one of a, b is nonzero (the
\* operands differ after coercion to booleans), and 0 otherwise
C11_XorCoerced ==
    IsInfixOf(expr, 1, {"XOR"}) =>
        /\ error = ""
        /\ result = I(IF (expr.l[1].n # 0) # (expr.l[3].n # 0) THEN 1 ELSE 0)

\* C11 as the code means it: [a, "XOR", b] is 1 iff a and b are different
\* integers and 0 iff they are equal, so two different nonzero operands give 1
C11_XorIsInequality ==
    IsInfixOf(expr, 1, {"XOR"}) =>
        /\ error = ""
        /\ result = I(IF expr.l[1].n # expr.l[3].n THEN 1 ELSE 0)

C11_Witness ==
    /\ expr = Infix(<<I(1), S("XOR"), I(2)>>)
    /\ error = ""
    /\ result = I(1)

\* the value stack of evaluate_rpn, started with height values, never holds
\* fewer than two values when an operator is met and ends holding exactly one
RECURSIVE StackDiscipline(_, _)
StackDiscipline(tokens, height) ==
    IF tokens = <<>> THEN height = 1
    ELSE IF IsInt(Head(tokens)) THEN StackDiscipline(Tail(tokens), height + 1)
    ELSE height >= 2 /\ StackDiscipline(Tail(tokens), height - 1)

\* C22: for every well-formed infix form without division, the tokens that
\* parse_infix produces never make evaluate_rpn pop from a value stack holding
\* fewer than two values, and evaluate_rpn finishes with exactly one value
C22_RpnStackDiscipline ==
    \A nops \in 1 .. 4 :
        IsInfixOf(expr, nops, Operators \ {"/"}) =>
            /\ StackDiscipline(parse_infix(expr.l, State, 0).q, 0)
            /\ Len(parse_infix(expr.l, State, 0).q) = Len(expr.l)
            /\ error = ""
            /\ result.k = "int"

\* a form of four operators of the three precedence levels was evaluated
C22_Witness ==
    /\ expr = Infix(<<I(1), S("+"), I(2), S("*"), I(1), S("-"), I(2), S("AND"), I(1)>>)
    /\ error = ""
    /\ result.k = "int"

(***************************************************************************)
(* Properties of the scope store and of calls.                             *)
(***************************************************************************)
\* e is a form of the keyword kw
IsForm(e, kw) == e.k = "list" /\ Len(e.l) >= 1 /\ e.l[1] = S(kw)

\* the step just taken evaluated a form of the keyword kw
Took(kw) == steps' = steps - 1 /\ IsForm(expr', kw)

\* what ["get", x] returns in the current state: [st, v]
GetNow(x) == do(Get(x), State, 0)

\* what ["get", x] returns in the state the step leads to
GetNext(x) == do(Get(x), State', 0)

\* C1: for every call that returns normally, the execution path when control
\* returns to the caller equals the execution path when the call began
C1_PathRestoredOnReturn ==
    [][(Took("call") /\ error' = "") => scope_trace'[2] = scope_trace[2]]_vars

\* C2: for every name x and every right-hand side that evaluates to an integer
\* v, ["set", x, rhs] followed at once by ["get", x] returns v
C2_SetThenGet ==
    [][(Took("set") /\ Len(expr'.l) = 3 /\ expr'.l[2].k = "str") =>
          LET rhs == do(expr'.l[3], State, 0) IN
          (rhs.st.err = "" /\ rhs.v.k = "int") =>
              /\ error' = ""
              /\ GetNext(expr'.l[2].s).st.err = ""
              /\ GetNext(expr'.l[2].s).v = rhs.v]_vars

\* C3: ["seq", ["set","f",["func",["n"],["get","n"]]], ["call","f",v]]
\* evaluated from an empty store and the trace ([], []) returns v
C3_CallBindsParameter ==
    \A v \in Ints :
        (expr = DefineAndCall(v) /\ steps = MaxSteps - 1) => (error = "" /\ result = v)

\* C4: when x is bound in the caller's scope and the body of a called function
\* sets x, get x returns the set value while the body runs, and after the call
\* returns get x in the caller returns what it returned before the call
C4_ShadowingRoundTrip ==
    [][(/\ Took("call")
        /\ expr' = Call("f", <<>>)
        /\ GetNow("f").v = FnShadow
        /\ GetNow("x").st.err = ""
        /\ GetNow("x").v # None
        /\ error' = "")
       => (result' = I(2) /\ GetNext("x").v = GetNow("x").v)]_vars

\* the depths k such that the walk along path visits the level path[1..k]
VisitedDepths(scopes, path) ==
    {k \in 0 .. Len(path) : \A j \in 1 .. k : SubSeq(path, 1, j) \in DOMAIN scopes}

\* the visited depths at which name is bound
BoundDepths(scopes, name, path) ==
    {k \in VisitedDepths(scopes, path) : Append(SubSeq(path, 1, k), name) \in DOMAIN scopes}

\* the value bound to name at the deepest visited level that binds it
DeepestBinding(scopes, name, path) ==
    LET hits == BoundDepths(scopes, name, path) IN
    IF hits = {} THEN None
    ELSE LET k == CHOOSE d \in hits : \A e \in hits : e <= d
         IN scopes[Append(SubSeq(path, 1, k), name)]

ProbeNames == {"x", "n", "f", "g"}

RECURSIVE SeqsUpTo(_, _)
SeqsUpTo(S0, n) ==
    IF n = 0 THEN {<<>>}
    ELSE LET shorter == SeqsUpTo(S0, n - 1) IN
         shorter \cup {Append(p, s) : p \in shorter, s \in S0}

\* the paths lookup is probed with: the execution path, and every path of at
\* most MaxProbePath segments over the names of functions
MaxProbePath == 2

ProbePaths == {scope_trace[2]} \cup SeqsUpTo({"f", "g"}, MaxProbePath)

\* C5: lookup(name, path) returns the value bound to name at the deepest of the
\* levels it visits (the root and each child scope reached by walking path up
\* to the first absent segment), and so does a get along the execution path
C5_DeepestVisitedWins ==
    /\ \A name \in ProbeNames : \A path \in ProbePaths :
           get_from_scope_dict(SCOPES, name, path) = DeepestBinding(SCOPES, name, path)
    /\ \A name \in ProbeNames :
           (expr = Get(name) /\ error = "") =>
               result = DeepestBinding(SCOPES, name, scope_trace[2])

\* a get of x returned the binding of the child scope of f, different from
\* the one at the root
C5_Witness ==
    /\ expr = Get("x")
    /\ error = ""
    /\ BoundDepths(SCOPES, "x", scope_trace[2]) = {0, 1}
    /\ SCOPES[<<"x">>] # SCOPES[<<"f", "x">>]
    /\ result = SCOPES[<<"f", "x">>]

\* C6: a get of a name bound at none of the levels visited along the execution
\* path fails with NameNotFound; it never returns a value
C6_UnboundGetFails ==
    \A name \in ProbeNames :
        (expr = Get(name) /\ BoundDepths(SCOPES, name, scope_trace[2]) = {}) =>
            error = "NameNotFound"

\* v is a function record ["function", params, body]
IsFunctionRecord(v) ==
    v.k = "list" /\ Len(v.l) = 3 /\ v.l[1] = S("function") /\ v.l[2].k = "list"

\* the value the callee name of the call form e resolves to along the
\* execution path of the current state
Callee(e) == get_from_scope_dict(SCOPES, e.l[2].s, scope_trace[2])

\* e is a call of integer arguments
IsPlainCall(e) ==
    /\ IsForm(e, "call")
    /\ Len(e.l) >= 2
    /\ e.l[2].k = "str"
    /\ \A i \in 3 .. Len(e.l) : e.l[i].k = "int"

\* e is a call whose number of arguments differs from the callee's number of
\* parameters
HasArityMismatch(e) ==
    /\ IsPlainCall(e)
    /\ IsFunctionRecord(Callee(e))
    /\ Len(e.l) - 2 # Len(Callee(e).l[2].l)

ArityMismatch == "AssertionError: different number of parameters"

NotAFunction == "AssertionError: is not a function"

\* C12: a call whose number of arguments differs from the callee's number of
\* parameters fails with ArityMismatch, before any parameter is bound in the
\* store and before the callee's name is pushed onto the execution path
C12_ArityMismatchFails ==
    [][(Took("call") /\ HasArityMismatch(expr')) =>
          /\ error' = ArityMismatch
          /\ SCOPES' = SCOPES
          /\ scope_trace' = scope_trace]_vars

\* e is a call whose callee name resolves to a value that is not a function
\* record
HasNonFunctionCallee(e) ==
    /\ IsPlainCall(e)
    /\ Callee(e) # None
    /\ ~IsFunctionRecord(Callee(e))

\* C13: a call whose callee name resolves, along the execution path, to a
\* value that is not a function record fails with NotAFunction, binds no
\* parameter and does not extend the execution path
C13_NonFunctionCalleeFails ==
    [][(Took("call") /\ HasNonFunctionCallee(expr')) =>
          /\ error' = NotAFunction
          /\ SCOPES' = SCOPES
          /\ scope_trace' = scope_trace]_vars

\* e is a form headed by a name that is not a key of OPS
IsUnknownForm(e) ==
    e.k = "list" /\ Len(e.l) >= 1 /\ e.l[1].k = "str" /\ e.l[1].s \notin OPS

\* C14: evaluating a form whose first element is a name that is not in the
\* dispatch table fails with UnknownOperation without evaluating any operand
\* of the form and without changing the store or either path
C14_UnknownOperationFails ==
    [][(steps' = steps - 1 /\ IsUnknownForm(expr')) =>
          /\ error' = UnknownOperation
          /\ result' = None
          /\ SCOPES' = SCOPES
          /\ scope_trace' = scope_trace
          /\ sink' = sink
          /\ ids' = ids]_vars

\* ["frobnicate", ["set", "x", 5]] failed and x is still unbound
C14_Witness ==
    /\ expr = L(<<S("frobnicate"), Set("x", I(5))>>)
    /\ error = UnknownOperation
    /\ <<"x">> \notin DOMAIN SCOPES
    /\ steps = MaxSteps - 1

\* C15: a form headed by any of the keywords seq, set, get, func, call, print,
\* add, abs, +, -, *, /, AND, OR, XOR with the right number of operands is
\* routed to its handler and never fails with UnknownOperation
C15_KeywordsRecognised ==
    \A kw \in Keywords : expr = KeywordForm(kw) => error # UnknownOperation

\* C16: evaluating ["get", x] twice in succession with no set or call in
\* between returns the same value both times, and the first evaluation leaves
\* the store and both paths unchanged
C16_GetIdempotent ==
    [][(Took("get") /\ error' = "") =>
          /\ SCOPES' = SCOPES
          /\ scope_trace' = scope_trace
          /\ GetNext(expr'.l[2].s).v = result'
          /\ GetNext(expr'.l[2].s).st.err = ""
          /\ (expr = expr' => result' = result)]_vars

\* a get of x bound to an integer, inside the scope left by a call, in a run
\* that writes the trace file; evaluated once more it returns the same
C16_Witness ==
    /\ expr = Get("x")
    /\ error = ""
    /\ result.k = "int"
    /\ scope_trace[2] # <<>>
    /\ trace
    /\ GetNow("x").v = result

\* the store after name is bound to value at the level addressed by path
BoundAt(path, name, value) == bind_at(SCOPES, walk(SCOPES, <<>>, path), name, value)

\* C17: a set whose right-hand side is a function-valued form binds the name at
\* the level addressed by the definition path and appends the name to the
\* definition path; a set with any other right-hand side binds the name at the
\* level addressed by the execution path and leaves the definition path
\* unchanged
C17_SetPlacement ==
    [][(Took("set") /\ error' = "") =>
          IF IsFunctionRecord(expr'.l[3]) THEN
              /\ SCOPES' = BoundAt(scope_trace[1], expr'.l[2].s, result')
              /\ scope_trace'[1] = Append(scope_trace[1], expr'.l[2].s)
          ELSE
              /\ SCOPES' = BoundAt(scope_trace[2], expr'.l[2].s, result')
              /\ scope_trace'[1] = scope_trace[1]]_vars

\* C18: the store is append/overwrite only: no binding is ever removed at any
\* level, so a child scope that holds a binding is never replaced by an empty
\* one and never loses a binding
C18_StoreOnlyGrows ==
    [][DOMAIN SCOPES \subseteq DOMAIN SCOPES']_vars

\* C19: in a call, the argument expressions are evaluated left to right under
\* the caller's scope trace, and none of the call's parameters is bound until
\* every argument has been evaluated
C19_ArgumentsBeforeBinding ==
    [][(Took("call") /\ error' = "" /\ Callee(expr') = FnPair) =>
          \* the second argument reads the caller's n, not the parameter n = 5
          /\ expr' = Call("h", <<I(5), Get("n")>>) => result' = GetNow("n").v
          \* the second argument reads the x the first argument has set
          /\ expr' = Call("h", <<Set("x", I(7)), Get("x")>>) => result' = I(7)]_vars

\* the caller's n was 7 before the call of h(5, get n), and the call returned 7
C19_Witness ==
    /\ expr = Call("h", <<I(5), Get("n")>>)
    /\ error = ""
    /\ result = I(7)

\* e is a call whose single argument is ["set", "n", 7]
HasWritingArgument(e) ==
    IsForm(e, "call") /\ Len(e.l) = 3 /\ e.l[2].k = "str" /\ e.l[3] = Set("n", I(7))

\* C20 as stated: the callee name is resolved and checked before any argument
\* is evaluated, so when the callee is unbound or bound to a non-function the
\* call fails and no side effect of an argument reaches the store or the
\* execution path
C20_CalleeCheckedFirst ==
    [][(Took("call") /\ HasWritingArgument(expr') /\ ~IsFunctionRecord(Callee(expr'))) =>
          /\ error' # ""
          /\ SCOPES' = SCOPES
          /\ scope_trace' = scope_trace]_vars

\* C20 as the code has it: the callee name is resolved after the arguments;
\* a call that fails with NotAFunction has evaluated every argument first, so
\* the effects of the arguments are in the store, while no parameter is bound
\* and the execution path is not extended
C20_ArgumentsEvaluatedFirst ==
    [][(Took("call") /\ HasWritingArgument(expr') /\ error' = NotAFunction) =>
          /\ SCOPES' = BoundAt(scope_trace[2], "n", I(7))
          /\ scope_trace' = scope_trace]_vars

\* the call of the unbound k with the argument ["set", "n", 7] failed with
\* NotAFunction and n is bound to 7
C20_Witness ==
    /\ expr = Call("k", <<Set("n", I(7))>>)
    /\ error = NotAFunction
    /\ <<"n">> \in DOMAIN SCOPES
    /\ SCOPES[<<"n">>] = I(7)
    /\ steps = MaxSteps - 1

\* the store scopes after name is bound to value at the level addressed by path
BoundIn(scopes, path, name, value) ==
    bind_at(scopes, walk(scopes, <<>>, path), name, value)

\* C21: a call binds each parameter at the level reached by walking the
\* execution path as it stands after the evaluation of the arguments and
\* before the push of the callee's name, and the body runs with that path
\* followed by exactly one occurrence of the callee's name
C21_ParametersAtCallerLevel ==
    [][(Took("call") /\ error' = "") =>
          \* f(v): n is bound at the level of the caller's path
          /\ (IsPlainCall(expr') /\ Callee(expr') = FnIdentity) =>
                 /\ SCOPES' = BoundAt(scope_trace[2], "n", expr'.l[3])
                 /\ result' = expr'.l[3]
          \* f(): the x set by the body is bound one level below, under f
          /\ (IsPlainCall(expr') /\ Callee(expr') = FnShadow) =>
                 SCOPES' = BoundAt(Append(scope_trace[2], expr'.l[2].s), "x", I(2))
          \* g(v) calling f(n): f's pushes lie between the two pushes of g
          /\ (IsPlainCall(expr') /\ Callee(expr') = FnOuter /\ GetNow("f").v = FnIdentity) =>
                 scope_trace'[2] = scope_trace[2] \o <<"g", "f", "f", "g">>
          \* f(f(5)): the outer n is bound at the level of the path the inner
          \* call left
          /\ (expr' = Call("f", <<Call("f", <<I(5)>>)>>) /\ Callee(expr') = FnIdentity) =>
                 /\ SCOPES' = BoundIn(BoundAt(scope_trace[2], "n", I(5)),
                                      scope_trace[2] \o <<"f", "f">>, "n", I(5))
                 /\ scope_trace'[2] = scope_trace[2] \o <<"f", "f", "f", "f">>]_vars

\* f(f(5)) from the root: the inner call bound n at the root, the outer one
\* under f
C21_Witness ==
    /\ expr = Call("f", <<Call("f", <<I(5)>>)>>)
    /\ error = ""
    /\ result = I(5)
    /\ scope_trace[2] = <<"f", "f", "f", "f">>
    /\ <<"n">> \in DOMAIN SCOPES
    /\ <<"f", "n">> \in DOMAIN SCOPES

\* e is a form of a handler that carries @trace_function()
IsTracedForm(e) ==
    e.k = "list" /\ Len(e.l) >= 1 /\ e.l[1].k = "str" /\ e.l[1].s \in Traced

\* the rows the step appends to the sink
NewRows == SubSeq(sink', Len(sink) + 1, Len(sink'))

\* rows holds exactly two rows of the call id id: a "start", then a "stop"
Paired(rows, id) ==
    \E i, j \in 1 .. Len(rows) :
        /\ i < j
        /\ {k \in 1 .. Len(rows) : rows[k].id = id} = {i, j}
        /\ rows[i].event = "start"
        /\ rows[j].event = "stop"

HasNoCallInArguments(e) ==
    \A i \in 3 .. Len(e.l) : e.l[i].k = "int" \/ IsForm(e.l[i], "get") \/ IsForm(e.l[i], "set")

\* the functions of the runs whose body makes no call
CallFree == Functions \cup {FnPair}

RootBindings(scopes) == [a \in {b \in DOMAIN scopes : Len(b) = 1} |-> scopes[a]]

\* the step evaluates a set that do_set takes for a function definition, and
\* so makes through the definition path
ThroughDefinitionPath(e) ==
    IsForm(e, "set") /\ Len(e.l) = 3 /\ check_for_func(e.l[3]).v

====
